---- MODULE Spec2Model ----
(***************************************************************************)
(* Model of xtask/src/codegen/aya_bpf.rs: the codegen() pipeline (bindgen  *)
(* -> parse -> RewriteBpfHelpers traversal -> bindings.rs / helpers.rs ->  *)
(* rustfmt) and the RewriteBpfHelpers visitor.                             *)
(*                                                                         *)
(* Text is modelled as a sequence of tokens (TokenStream::to_string        *)
(* separates tokens with blanks, so "fn (" is the token fn followed by the *)
(* token "(").  An identifier is one token.                                *)
(***************************************************************************)
EXTENDS Integers, Sequences, FiniteSets, TLC

\* Largest number of nodes (items and foreign items) of a parsed file.
MaxNodes == 4

VARIABLES
    pc,        \* the statement of codegen() about to run, or how the run ended
    output,    \* `output`: what cmd.output() captured (line 50)
    bindings,  \* `bindings`: the text of bindgen's output (line 51), as the items it parses to
    tree,      \* `tree`: the items of the parsed syn::File (line 59)
    path,      \* the visitor's call stack: child indices down to the node being visited
    phase,     \* which visit_* call is about to run / has returned for that node
    helpers,   \* `tx.helpers` (line 61, 86)
    hidx,      \* position of the `for helper in &tx.helpers` loop (line 76)
    disk,      \* bindings.rs and helpers.rs: "absent" or the tokens written so far
    formatted, \* what rustfmt did to each file: "no", "done" (exit 0) or "nonzero"
    stderr,    \* what eprintln! printed (line 54)
    err,       \* the error codegen() returned, "none" while running
    log        \* the externally visible steps in the order they happened

vars == <<pc, output, bindings, tree, path, phase, helpers, hidx, disk, formatted, stderr, err, log>>

----------------------------------------------------------------------------
(* Sequences of tokens *)

RECURSIVE Flatten(_)
Flatten(ss) == IF ss = <<>> THEN <<>> ELSE Head(ss) \o Flatten(Tail(ss))

RECURSIVE Join(_, _)
\* Punctuated<_, Comma> printed: the elements separated by sep, none trailing.
Join(ss, sep) ==
    IF ss = <<>> THEN <<>>
    ELSE IF Len(ss) = 1 THEN Head(ss)
    ELSE Head(ss) \o <<sep>> \o Join(Tail(ss), sep)

Count(s, t) == Cardinality({i \in 1..Len(s) : s[i] = t})
Absent(s, t) == \A i \in 1..Len(s) : s[i] # t

\* The identifiers of the modelled inputs, spelled as the pieces the code's
\* string tests look at; any other token is a single piece.
Spelling(tok) ==
    CASE tok = "bpf_map_lookup_elem" -> <<"bpf_", "map_lookup_elem">>
      [] tok = "bpf_trace_printk"    -> <<"bpf_", "trace_", "printk">>
      [] tok = "bpf_probe_read"      -> <<"bpf_", "probe_read">>
      [] tok = "bpf_loop"            -> <<"bpf_", "loop">>
      [] tok = "bpf_bad"             -> <<"bpf_", "bad">>
      [] tok = "bpf_raw"             -> <<"bpf_", "raw">>
      [] tok = "bpf_decl"            -> <<"bpf_", "decl">>
      [] tok = "bpf_top"             -> <<"bpf_", "top">>
      [] tok = "bpf_map_def"         -> <<"bpf_", "map_def">>
      [] tok = "fmt_printk"          -> <<"fmt_", "printk">>
      [] OTHER                       -> <<tok>>

\* str::starts_with
StartsWith(tok, prefix) == Spelling(tok)[1] = prefix

\* str::contains on one token
TokContains(tok, piece) == \E i \in 1..Len(Spelling(tok)) : Spelling(tok)[i] = piece

\* str::contains on a text, for a needle without blanks
Contains(text, piece) == \E i \in 1..Len(text) : TokContains(text[i], piece)

----------------------------------------------------------------------------
(* Types and their tokens (syn::Type, ToTokens) *)

\* Type::Ptr: *mut c_void
PtrTy == [k |-> "ptr"]
\* no `-> T` (ReturnType::Default)
NoRet == [k |-> "unit"]
\* Type::BareFn: unsafe extern "C" fn(params) -> ret
FnTy(params, ret) == [k |-> "fn", params |-> params, ret |-> ret]
\* BareFnArg; name "" is `name: None`
Arg(n, ty) == [name |-> n, ty |-> ty]
\* Type::Path whose last segment is seg, with its PathArguments
PathTy(seg, args) == [k |-> "path", seg |-> seg, args |-> args]
NoArgs == [form |-> "none"]
Angle(args) == [form |-> "angle", args |-> args]
\* GenericArgument::Type
TypeArg(ty) == [g |-> "type", ty |-> ty]

RECURSIVE TypeTokens(_)
RECURSIVE ArgTokens(_)
RECURSIVE ParamTokens(_)

\* ToTokens for GenericArgument
ArgTokens(ga) == TypeTokens(ga.ty)

ParamTokens(params) ==
    Join([i \in 1..Len(params) |->
            (IF params[i].name = "" THEN <<>> ELSE <<params[i].name, ":">>)
            \o TypeTokens(params[i].ty)], ",")

TypeTokens(ty) ==
    CASE ty.k = "ptr"  -> <<"*", "mut", "c_void">>
      [] ty.k = "fn"   ->
            <<"unsafe", "extern", "\"C\"", "fn", "(">> \o ParamTokens(ty.params) \o <<")">>
            \o (IF ty.ret = NoRet THEN <<>> ELSE <<"->">> \o TypeTokens(ty.ret))
      [] ty.k = "path" ->
            <<ty.seg>> \o
            (CASE ty.args.form = "none"  -> <<>>
               [] ty.args.form = "angle" ->
                    <<"<">>
                    \o Join([i \in 1..Len(ty.args.args) |-> ArgTokens(ty.args.args[i])], ",")
                    \o <<">">>)
----------------------------------------------------------------------------
(* RewriteBpfHelpers::visit_foreign_item_static_mut, lines 96-139 *)

\* quote! { #[inline(always)] pub #fn_ty }.to_string(), lines 109-113
Signature(fn_ty) == <<"#", "[", "inline", "(", "always", ")", "]", "pub">> \o ArgTokens(fn_ty)

RECURSIVE Replace(_, _)
\* ty_s.replace("fn (", &format!("fn {} (", ident_str)), line 114: every
\* occurrence, left to right.
Replace(text, ident) ==
    IF Len(text) < 2 THEN text
    ELSE IF text[1] = "fn" /\ text[2] = "("
         THEN <<"fn", ident, "(">> \o Replace(SubSeq(text, 3, Len(text)), ident)
         ELSE <<text[1]>> \o Replace(Tail(text), ident)

\* CallIdx with the count taken as the index: the first helper gets 0
CallIdxFromZero(hs) == Len(hs)

\* let call_idx = self.helpers.len() + 1, line 115
CallIdx(hs) == Len(hs) + 1

\* a usize interpolated by quote!: the suffixed literal
IdxTok(n) == ToString(n) \o "usize"

\* ArgNames with the names collected back to front
ArgNamesReversed(f) == [i \in 1..Len(f.params) |-> <<f.params[Len(f.params) + 1 - i].name>>]

\* the parameter names, lines 116-121 (every name is Some here)
ArgNames(f) == [i \in 1..Len(f.params) |-> <<f.params[i].name>>]

\* quote! { { let f: #fn_ty = ::core::mem::transmute(#call_idx); f(#args) } }, lines 124-130
Body(fn_ty, call_idx) ==
    <<"{", "let", "f", ":">> \o ArgTokens(fn_ty)
    \o <<"=", "::", "core", "::", "mem", "::", "transmute", "(", IdxTok(call_idx), ")", ";">>
    \o <<"f", "(">> \o Join(ArgNames(fn_ty.ty), ",") \o <<")", "}">>

\* Suppress without the test for printk
SuppressNever(helper) == helper

\* lines 132-135
Suppress(helper) ==
    IF Contains(helper, "printk") THEN <<"/*">> \o helper \o <<"*/">> ELSE helper

\* Rewritten without the test of the name
RewrittenAnyName(st) ==
    /\ st.ty.k = "path"
    /\ st.ty.seg = "Option"

\* line 97 and line 102
Rewritten(st) ==
    /\ st.ty.k = "path"
    /\ StartsWith(st.ident, "bpf_")
    /\ st.ty.seg = "Option"

\* What stops the visit of a rewritten static: panic!() at line 107, the
\* unwrap() of line 105, unreachable!() at line 122, the unwrap() of line 120.
Panics(st) ==
    \/ st.ty.args.form # "angle"
    \/ st.ty.args.args = <<>>
    \/ st.ty.args.args[1].ty.k # "fn"
    \/ \E i \in 1..Len(st.ty.args.args[1].ty.params) : st.ty.args.args[1].ty.params[i].name = ""

\* The helper pushed at line 136 for a rewritten static that does not panic.
Helper(st, hs) ==
    LET fn_ty == st.ty.args.args[1]
    IN  Suppress(Replace(Signature(fn_ty), st.ident) \o Body(fn_ty, CallIdx(hs)))

----------------------------------------------------------------------------
(* The parsed file: syn::File.items, Item, ForeignItem *)

\* unsafe extern "C" fn(arg0: *mut c_void, arg1: *mut c_void) -> *mut c_void
Fn2 == FnTy(<<Arg("arg0", PtrTy), Arg("arg1", PtrTy)>>, PtrTy)
\* unsafe extern "C" fn(arg0: *mut c_void) -> i64
Fn1 == FnTy(<<Arg("arg0", PtrTy)>>, PathTy("i64", NoArgs))
\* unsafe extern "C" fn(fmt_printk: *mut c_void)
FnFmt == FnTy(<<Arg("fmt_printk", PtrTy)>>, NoRet)
\* a parameter that is itself an optional function pointer
FnCb ==
    FnTy(<<Arg("arg0", PathTy("Option", Angle(<<TypeArg(
                FnTy(<<Arg("arg1", PathTy("u32", NoArgs))>>, NoRet))>>)))>>,
         PathTy("i64", NoArgs))

OptionOf(ty) == PathTy("Option", Angle(<<TypeArg(ty)>>))

ForeignStatic(ident, ty) == [kind |-> "static", ident |-> ident, ty |-> ty]
ForeignFn(ident) == [kind |-> "fn", ident |-> ident]

\* The foreign items bindgen's output is drawn from.
ForeignItems ==
    { ForeignStatic("bpf_map_lookup_elem", OptionOf(Fn2)),
      ForeignStatic("bpf_trace_printk", OptionOf(Fn1)),
      ForeignStatic("bpf_probe_read", OptionOf(FnFmt)),
      ForeignStatic("bpf_loop", OptionOf(FnCb)),
      ForeignStatic("bpf_bad", OptionOf(PathTy("u32", NoArgs))),
      ForeignStatic("bpf_raw", PathTy("Option", NoArgs)),
      ForeignStatic("other_sym", OptionOf(Fn1)),
      ForeignStatic("BPF_SOME_CONST", PathTy("u32", NoArgs)),
      ForeignFn("bpf_decl") }

\* The items outside foreign blocks that are not containers.
PlainItems ==
    { [kind |-> "const", ident |-> "BPF_SOME_CONST"],
      [kind |-> "static", ident |-> "bpf_top", ty |-> OptionOf(Fn1)] }

ForeignMod(fitems) == [kind |-> "foreign", items |-> fitems]
Mod(items) == [kind |-> "mod", ident |-> "inner", items |-> items]
\* Item::Verbatim(TokenStream::new())
Verbatim == [kind |-> "verbatim"]

RECURSIVE Idents(_)
\* The names the items declare, in source order (a module's own name aside).
Idents(items) ==
    Flatten([i \in 1..Len(items) |->
                IF items[i].kind \in {"mod", "foreign"} THEN Idents(items[i].items)
                ELSE IF items[i].kind = "verbatim" THEN <<>>
                ELSE <<items[i].ident>>])

\* No name is declared twice, as in any file that compiles.
Distinct(s) == \A i, j \in 1..Len(s) : s[i] = s[j] => i = j

\* The items of exactly n nodes; bySize[k + 1] holds the item sequences of
\* exactly k nodes, for every k < n.
ItemsOfSize(n, bySize) ==
    (IF n = 1 THEN PlainItems ELSE {})
    \cup { ForeignMod(s) : s \in { t \in [1..(n - 1) -> ForeignItems] : Distinct(Idents(t)) } }
    \cup { Mod(s) : s \in bySize[n] }

\* The sequences of items of exactly n nodes in all.
ItemSeqs(n, bySize) ==
    IF n = 0 THEN {<<>>}
    ELSE UNION { { s \in { <<it>> \o rest : it \in ItemsOfSize(k, bySize),
                                            rest \in bySize[n - k + 1] } :
                   Distinct(Idents(s)) }
                 : k \in 1..n }

RECURSIVE BySize(_, _)
\* The item sequences of 0, 1, ..., MaxNodes nodes.
BySize(n, bySize) ==
    IF n > MaxNodes THEN bySize
    ELSE BySize(n + 1, Append(bySize, ItemSeqs(n, bySize)))

\* The files bindgen's output is drawn from.
Files == LET bySize == BySize(0, <<>>) IN UNION { bySize[i] : i \in 1..Len(bySize) }

\* What cmd.output() can capture, as far as codegen() looks at it: the exit
\* status.  Whether the captured bytes are UTF-8 is the result of the two
\* from_utf8 calls.
Outputs == { [status |-> st] : st \in {0, 1} }

\* What parse_str::<syn::File> can make of a standard output that is UTF-8:
\* Err, or Ok with the items of the file.
Parsed == {[ok |-> FALSE]} \cup { [ok |-> TRUE, items |-> f] : f \in Files }

RECURSIVE NodeAt(_, _)
NodeAt(items, p) ==
    IF Len(p) = 1 THEN items[p[1]] ELSE NodeAt(items[p[1]].items, Tail(p))

RECURSIVE ReplaceAt(_, _, _)
ReplaceAt(items, p, new) ==
    IF Len(p) = 1 THEN [items EXCEPT ![p[1]] = new]
    ELSE [items EXCEPT ![p[1]] =
            [items[p[1]] EXCEPT !.items = ReplaceAt(items[p[1]].items, Tail(p), new)]]

Front(p) == SubSeq(p, 1, Len(p) - 1)
Last(p) == p[Len(p)]
NextSibling(p) == Front(p) \o <<Last(p) + 1>>
\* the sequence the node at p is an element of
Siblings(items, p) == IF Len(p) = 1 THEN items ELSE NodeAt(items, Front(p)).items

RECURSIVE ItemTokens(_)
\* ToTokens of an item, line 68
ItemTokens(it) ==
    CASE it.kind = "const"    -> <<"pub", "const", it.ident, ":", "u32", "=", "7", ";">>
      [] it.kind = "static"   ->
            <<"pub", "static", it.ident, ":">> \o TypeTokens(it.ty) \o <<";">>
      [] it.kind = "fn"       -> <<"pub", "fn", it.ident, "(", ")", ";">>
      [] it.kind = "mod"      ->
            <<"pub", "mod", it.ident, "{">>
            \o Flatten([i \in 1..Len(it.items) |-> ItemTokens(it.items[i])]) \o <<"}">>
      [] it.kind = "foreign"  ->
            <<"extern", "\"C\"", "{">>
            \o Flatten([i \in 1..Len(it.items) |-> ItemTokens(it.items[i])]) \o <<"}">>
      [] it.kind = "verbatim" -> <<>>

\* tree.to_token_stream(), line 68
FileTokens(items) == Flatten([i \in 1..Len(items) |-> ItemTokens(items[i])])

----------------------------------------------------------------------------
(* codegen(), lines 23-83 *)

NoFile == [exists |-> FALSE, text |-> <<>>]
NoOutput == [status |-> 0]

Init ==
    /\ pc = "output"
    /\ output = NoOutput
    /\ bindings = <<>>
    /\ tree = <<>>
    /\ path = <<>>
    /\ phase = "none"
    /\ helpers = <<>>
    /\ hidx = 1
    /\ disk = [bindings |-> NoFile, helpers |-> NoFile]
    /\ formatted = [bindings |-> "no", helpers |-> "no"]
    /\ stderr = FALSE
    /\ err = "none"
    /\ log = <<>>

\* `?` on an Err: codegen returns it
Fail(e) == pc' = "failed" /\ err' = e

\* let output = cmd.output()?, line 50
RunBindgen ==
    /\ pc = "output"
    /\ \/ /\ Fail("io")
          /\ UNCHANGED <<output, bindings, log>>
       \/ /\ \E o \in Outputs : output' = o
          /\ pc' = "decode"
          /\ log' = Append(log, "bindgen")
          /\ UNCHANGED err
    /\ UNCHANGED <<bindings, tree, path, phase, helpers, hidx, disk, formatted, stderr>>

\* let bindings = std::str::from_utf8(&output.stdout)?, line 51
DecodeStdout ==
    /\ pc = "decode"
    /\ \E utf8 \in BOOLEAN :
        IF utf8
        THEN pc' = "status" /\ UNCHANGED err
        ELSE Fail("utf8")
    /\ UNCHANGED <<output, bindings, tree, path, phase, helpers, hidx, disk, formatted, stderr, log>>

\* if !output.status.success() { ... }, lines 53-56
CheckStatus ==
    /\ pc = "status"
    /\ IF output.status = 0
       THEN pc' = "parse" /\ UNCHANGED <<err, stderr>>
       ELSE \E utf8 \in BOOLEAN :
                IF utf8
                THEN stderr' = TRUE /\ Fail("bindgen failed")
                ELSE Fail("utf8") /\ UNCHANGED stderr
    /\ UNCHANGED <<output, bindings, tree, path, phase, helpers, hidx, disk, formatted, log>>

\* parse_str::<syn::File>(bindings).unwrap() and the new RewriteBpfHelpers, lines 59-62
Parse ==
    /\ pc = "parse"
    /\ \E r \in Parsed :
        IF r.ok
        THEN /\ tree' = r.items
             /\ bindings' = r.items
             /\ helpers' = <<>>
             /\ pc' = "visit"
             /\ phase' = "file"
             /\ log' = Append(log, "parse")
        ELSE /\ pc' = "panicked"
             /\ UNCHANGED <<tree, bindings, helpers, phase, log>>
    /\ UNCHANGED <<output, path, hidx, disk, formatted, stderr, err>>

\* tx.visit_file_mut(&mut tree) returned, line 63
Visited ==
    /\ pc' = "create_bindings"
    /\ path' = <<>>
    /\ phase' = "none"
    /\ log' = Append(log, "visit")

\* tx.visit_file_mut(&mut tree), line 63: the first item, if any
VisitFile ==
    /\ pc = "visit" /\ phase = "file"
    /\ IF tree = <<>>
       THEN Visited
       ELSE path' = <<1>> /\ phase' = "item" /\ UNCHANGED <<pc, log>>
    /\ UNCHANGED <<output, bindings, tree, helpers, hidx, disk, formatted, stderr, err>>

\* Finalize that keeps a foreign block without items
FinalizeNonEmpty(it) == IF it.kind = "foreign" /\ it.items # <<>> THEN Verbatim ELSE it

\* if let Item::ForeignMod(_) = item { *item = Item::Verbatim(TokenStream::new()) }, lines 92-94
Finalize(it) == IF it.kind = "foreign" THEN Verbatim ELSE it

\* visit_item_mut returns, line 95: the caller (syn's visit of a file or of a
\* module) goes on to the next item, or returns itself
AfterItem ==
    IF Last(path) < Len(Siblings(tree, path))
    THEN path' = NextSibling(path) /\ phase' = "item" /\ UNCHANGED <<pc, log>>
    ELSE IF Len(path) = 1
         THEN Visited
         ELSE path' = Front(path) /\ phase' = "returned" /\ UNCHANGED <<pc, log>>

\* visit_item_mut, lines 90-95.  visit_mut::visit_item_mut (line 91) visits the
\* children of a module or of a foreign block; an item without children is
\* done in this one step.
VisitItem ==
    /\ pc = "visit" /\ phase = "item"
    /\ LET it == NodeAt(tree, path)
       IN  IF it.kind \in {"mod", "foreign"} /\ it.items # <<>>
           THEN /\ path' = path \o <<1>>
                /\ phase' = IF it.kind = "mod" THEN "item" ELSE "foreign_item"
                /\ UNCHANGED <<pc, tree, log>>
           ELSE /\ tree' = ReplaceAt(tree, path, Finalize(it))
                /\ AfterItem
    /\ UNCHANGED <<output, bindings, helpers, hidx, disk, formatted, stderr, err>>

\* after a foreign item: its next sibling, or back in visit_item_mut of the block
AfterForeignItem ==
    IF Last(path) < Len(Siblings(tree, path))
    THEN path' = NextSibling(path) /\ phase' = "foreign_item"
    ELSE path' = Front(path) /\ phase' = "returned"

\* VisitForeignItemStatic that skips a declaration where the code panics
VisitForeignItemStaticLenient ==
    /\ pc = "visit" /\ phase = "foreign_item"
    /\ LET st == NodeAt(tree, path)
       IN  /\ st.kind = "static"
           /\ IF ~Rewritten(st) \/ Panics(st)
              THEN AfterForeignItem /\ UNCHANGED <<pc, helpers>>
              ELSE /\ helpers' = Append(helpers, Helper(st, helpers))
                   /\ AfterForeignItem
                   /\ UNCHANGED pc
    /\ UNCHANGED <<output, bindings, tree, hidx, disk, formatted, stderr, err, log>>

\* visit_foreign_item_static_mut, lines 96-139
VisitForeignItemStatic ==
    /\ pc = "visit" /\ phase = "foreign_item"
    /\ LET st == NodeAt(tree, path)
       IN  /\ st.kind = "static"
           /\ IF ~Rewritten(st)
              THEN AfterForeignItem /\ UNCHANGED <<pc, helpers>>
              ELSE IF Panics(st)
                   THEN pc' = "panicked" /\ UNCHANGED <<path, phase, helpers>>
                   ELSE /\ helpers' = Append(helpers, Helper(st, helpers))
                        /\ AfterForeignItem
                        /\ UNCHANGED pc
    /\ UNCHANGED <<output, bindings, tree, hidx, disk, formatted, stderr, err, log>>

\* a foreign item that is no static: RewriteBpfHelpers overrides nothing for it
VisitForeignItemOther ==
    /\ pc = "visit" /\ phase = "foreign_item"
    /\ NodeAt(tree, path).kind # "static"
    /\ AfterForeignItem
    /\ UNCHANGED <<pc, output, bindings, tree, helpers, hidx, disk, formatted, stderr, err, log>>

\* visit_item_mut of a module or foreign block after visit_mut::visit_item_mut
\* visited its children, lines 92-95
FinishItem ==
    /\ pc = "visit" /\ phase = "returned"
    /\ tree' = ReplaceAt(tree, path, Finalize(NodeAt(tree, path)))
    /\ AfterItem
    /\ UNCHANGED <<output, bindings, helpers, hidx, disk, formatted, stderr, err>>

\* let mut file = File::create(&filename)?, line 67
CreateBindings ==
    /\ pc = "create_bindings"
    /\ \/ Fail("io") /\ UNCHANGED disk
       \/ /\ disk' = [disk EXCEPT !.bindings = [exists |-> TRUE, text |-> <<>>]]
          /\ pc' = "write_bindings"
          /\ UNCHANGED err
    /\ UNCHANGED <<output, bindings, tree, path, phase, helpers, hidx, formatted, stderr, log>>

\* write!(file, "{}", tree.to_token_stream())?, line 68
WriteBindings ==
    /\ pc = "write_bindings"
    /\ \/ Fail("io") /\ UNCHANGED <<disk, log>>
       \/ /\ disk' = [disk EXCEPT !.bindings.text = FileTokens(tree)]
          /\ pc' = "fmt_bindings"
          /\ log' = Append(log, "write bindings.rs")
          /\ UNCHANGED err
    /\ UNCHANGED <<output, bindings, tree, path, phase, helpers, hidx, formatted, stderr>>

\* Rustfmt with the exit status checked: a non-zero exit ends the run
RustfmtChecked(file, next) ==
    \/ Fail("io") /\ UNCHANGED <<formatted, log>>
    \/ /\ \E exit \in {0, 1} :
            /\ formatted' = [formatted EXCEPT ![file] = IF exit = 0 THEN "done" ELSE "nonzero"]
            /\ IF exit = 0 THEN pc' = next /\ UNCHANGED err ELSE Fail("rustfmt failed")
       /\ log' = Append(log, "rustfmt " \o file \o ".rs")

\* Command::new("rustfmt").arg(filename).status()?: Err if rustfmt could not
\* be run; otherwise its ExitStatus, which the statement drops
Rustfmt(file, next) ==
    \/ Fail("io") /\ UNCHANGED <<formatted, log>>
    \/ /\ \E exit \in {0, 1} :
            formatted' = [formatted EXCEPT ![file] = IF exit = 0 THEN "done" ELSE "nonzero"]
       /\ log' = Append(log, "rustfmt " \o file \o ".rs")
       /\ pc' = next
       /\ UNCHANGED err

\* FormatBindings with the call of rustfmt left out
FormatBindingsForgotten ==
    /\ pc = "fmt_bindings"
    /\ pc' = "create_helpers"
    /\ UNCHANGED <<output, bindings, tree, path, phase, helpers, hidx, disk, formatted, stderr, err, log>>

\* line 70
FormatBindings ==
    /\ pc = "fmt_bindings"
    /\ Rustfmt("bindings", "create_helpers")
    /\ UNCHANGED <<output, bindings, tree, path, phase, helpers, hidx, disk, stderr>>

\* let mut file = File::create(&filename)?, line 74
CreateHelpers ==
    /\ pc = "create_helpers"
    /\ \/ Fail("io") /\ UNCHANGED disk
       \/ /\ disk' = [disk EXCEPT !.helpers = [exists |-> TRUE, text |-> <<>>]]
          /\ pc' = "write_use"
          /\ UNCHANGED err
    /\ UNCHANGED <<output, bindings, tree, path, phase, helpers, hidx, formatted, stderr, log>>

UseLine == <<"use", "crate", "::", "bpf", "::", "generated", "::", "bindings", "::", "*", ";">>

\* the end of the block of lines 73-79: the file is complete
HelpersWritten == pc' = "fmt_helpers" /\ log' = Append(log, "write helpers.rs")

\* write!(file, "use crate::bpf::generated::bindings::*;")?, line 75
WriteUse ==
    /\ pc = "write_use"
    /\ \/ Fail("io") /\ UNCHANGED <<disk, hidx, log>>
       \/ /\ disk' = [disk EXCEPT !.helpers.text = UseLine]
          /\ hidx' = 1
          /\ IF helpers = <<>> THEN HelpersWritten ELSE pc' = "write_helper" /\ UNCHANGED log
          /\ UNCHANGED err
    /\ UNCHANGED <<output, bindings, tree, path, phase, helpers, formatted, stderr>>

\* for helper in &tx.helpers { file.write(helper.as_bytes())?; }, lines 76-78
WriteHelper ==
    /\ pc = "write_helper"
    /\ \/ Fail("io") /\ UNCHANGED <<disk, hidx, log>>
       \/ /\ disk' = [disk EXCEPT !.helpers.text = @ \o helpers[hidx]]
          /\ hidx' = hidx + 1
          /\ IF hidx = Len(helpers) THEN HelpersWritten ELSE UNCHANGED <<pc, log>>
          /\ UNCHANGED err
    /\ UNCHANGED <<output, bindings, tree, path, phase, helpers, formatted, stderr>>

\* line 80, then Ok(()) at line 82
FormatHelpers ==
    /\ pc = "fmt_helpers"
    /\ Rustfmt("helpers", "ok")
    /\ UNCHANGED <<output, bindings, tree, path, phase, helpers, hidx, disk, stderr>>

Next ==
    \/ RunBindgen
    \/ DecodeStdout
    \/ CheckStatus
    \/ Parse
    \/ VisitFile
    \/ VisitItem
    \/ VisitForeignItemStatic
    \/ VisitForeignItemOther
    \/ FinishItem
    \/ CreateBindings
    \/ WriteBindings
    \/ FormatBindings
    \/ CreateHelpers
    \/ WriteUse
    \/ WriteHelper
    \/ FormatHelpers

Spec == Init /\ [][Next]_vars

----------------------------------------------------------------------------
(* What the claims speak of *)

Logged(e) == \E i \in 1..Len(log) : log[i] = e

\* The eligibility predicate as the specification words it: a static of a
\* foreign block whose name starts with bpf_ and whose type is Option<fn ...>.
IsEligible(fi) ==
    /\ fi.kind = "static"
    /\ StartsWith(fi.ident, "bpf_")
    /\ fi.ty.k = "path" /\ fi.ty.seg = "Option"
    /\ fi.ty.args.form = "angle" /\ Len(fi.ty.args.args) >= 1
    /\ fi.ty.args.args[1].ty.k = "fn"

\* The surface shape without the function type: bpf_ name, Option, and no
\* angle-bracketed argument or a first argument that is no function type.
IsMisshapen(fi) ==
    /\ fi.kind = "static"
    /\ StartsWith(fi.ident, "bpf_")
    /\ fi.ty.k = "path" /\ fi.ty.seg = "Option"
    /\ ~IsEligible(fi)

RECURSIVE ForeignItemsOf(_)
\* The foreign items of a file in the order a reader meets them.
ForeignItemsOf(items) ==
    Flatten([i \in 1..Len(items) |->
                IF items[i].kind = "foreign" THEN items[i].items
                ELSE IF items[i].kind = "mod" THEN ForeignItemsOf(items[i].items)
                ELSE <<>>])

EligibleOf(items) == SelectSeq(ForeignItemsOf(items), IsEligible)

RECURSIVE WithoutForeign(_)
\* The file with every foreign block taken out and nothing else touched.
WithoutForeign(items) ==
    Flatten([i \in 1..Len(items) |->
                IF items[i].kind = "foreign" THEN <<>>
                ELSE IF items[i].kind = "mod"
                     THEN <<[items[i] EXCEPT !.items = WithoutForeign(items[i].items)]>>
                     ELSE <<items[i]>>])

RECURSIVE HasForeign(_)
HasForeign(items) ==
    \E i \in 1..Len(items) :
        \/ items[i].kind = "foreign"
        \/ items[i].kind = "mod" /\ HasForeign(items[i].items)

Names(s) == {s[i].ident : i \in 1..Len(s)}

\* A wrapper as pushed: commented out or not.
Commented(h) == Len(h) >= 2 /\ h[1] = "/*" /\ h[Len(h)] = "*/"
Live(h) == IF Commented(h) THEN SubSeq(h, 2, Len(h) - 1) ELSE h
\* its signature, up to the body's opening brace, and its body
SigOf(h) == LET l == Live(h) IN SubSeq(l, 1, (CHOOSE i \in 1..Len(l) : l[i] = "{" /\ \A j \in 1..(i - 1) : l[j] # "{") - 1)
BodyOf(h) == LET l == Live(h) IN SubSeq(l, Len(SigOf(h)) + 1, Len(l))
\* the name of the function a wrapper defines
FnName(h) == LET g == SigOf(h) IN g[(CHOOSE i \in 1..Len(g) : g[i] = "fn" /\ \A j \in 1..(i - 1) : g[j] # "fn") + 1]
\* the wrapper reinterprets the integer n, once
Transmutes(h, n) ==
    LET b == BodyOf(h)
    IN  /\ Count(b, "transmute") = 1
        /\ \E i \in 1..(Len(b) - 3) :
              b[i] = "transmute" /\ b[i + 1] = "(" /\ b[i + 2] = IdxTok(n) /\ b[i + 3] = ")"

\* inside a block comment at position i of a text
InComment(text, i) ==
    Cardinality({j \in 1..i : text[j] = "/*"}) > Cardinality({j \in 1..i : text[j] = "*/"})

BindingsWritten == Logged("write bindings.rs")
HelpersComplete == Logged("write helpers.rs")

----------------------------------------------------------------------------
(* The claims *)

MapLookupElem == ForeignStatic("bpf_map_lookup_elem", OptionOf(Fn2))
TracePrintk == ForeignStatic("bpf_trace_printk", OptionOf(Fn1))
ProbeRead == ForeignStatic("bpf_probe_read", OptionOf(FnFmt))
OtherSym == ForeignStatic("other_sym", OptionOf(Fn1))
SomeConstInside == ForeignStatic("BPF_SOME_CONST", PathTy("u32", NoArgs))
SomeConst == [kind |-> "const", ident |-> "BPF_SOME_CONST"]
TopStatic == [kind |-> "static", ident |-> "bpf_top", ty |-> OptionOf(Fn1)]

\* C1: the accumulator holds, in encounter order, the wrappers of the eligible
\* declarations met so far and nothing else, the k-th one reinterpreting the
\* integer k (commented-out wrappers included); once the traversal is over
\* there is exactly one entry per eligible declaration of the input.
C1_IndicesFollowEncounterOrder ==
    pc \notin {"output", "decode", "status", "parse"} =>
        LET el == EligibleOf(bindings)
        IN  /\ Len(helpers) <= Len(el)
            /\ \A k \in 1..Len(helpers) :
                  /\ FnName(helpers[k]) = el[k].ident
                  /\ Transmutes(helpers[k], k)
            /\ Logged("visit") => Len(helpers) = Len(el)

\* Scenario B with a suppressed first helper: H1, a non-eligible declaration,
\* H2; traversal over.
C1_Witness ==
    /\ Logged("visit")
    /\ bindings = <<ForeignMod(<<TracePrintk, OtherSym, MapLookupElem>>)>>
    /\ Len(helpers) = 2
    /\ Commented(helpers[1])
    /\ Transmutes(helpers[2], 2)

\* C2: once the traversal is over the tree holds no foreign block at any
\* depth, and the text written to bindings.rs opens no extern block and names
\* none of the declarations the input's foreign blocks held.
C2_NoForeignModSurvives ==
    /\ Logged("visit") => ~HasForeign(tree)
    /\ BindingsWritten =>
          LET text == disk.bindings.text
          IN  /\ \A i \in 1..(Len(text) - 2) :
                    ~(text[i] = "extern" /\ text[i + 1] = "\"C\"" /\ text[i + 2] = "{")
              /\ \A id \in Names(ForeignItemsOf(bindings)) : Absent(text, id)

\* a block of two eligible declarations inside a module
C2_Witness ==
    /\ pc = "ok"
    /\ bindings = <<Mod(<<ForeignMod(<<MapLookupElem, TracePrintk>>)>>)>>
    /\ ~HasForeign(tree)
    /\ disk.bindings.text = <<"pub", "mod", "inner", "{", "}">>

\* C3: bindings.rs holds the input's items outside foreign blocks, unchanged
\* and in their order, and nothing of the foreign blocks; no declaration
\* outside a foreign block and no non-eligible declaration inside one leaves
\* any text in the accumulator or in helpers.rs.
C3_OnlyForeignBlocksChange ==
    LET inside == ForeignItemsOf(bindings)
        outside == Idents(WithoutForeign(bindings))
        untouched == Names(SelectSeq(inside, LAMBDA fi : ~IsEligible(fi)))
                     \cup {outside[i] : i \in 1..Len(outside)}
    IN  /\ BindingsWritten => disk.bindings.text = FileTokens(WithoutForeign(bindings))
        /\ pc \notin {"output", "decode", "status", "parse"} =>
              \A id \in untouched :
                  /\ \A k \in 1..Len(helpers) : Absent(helpers[k], id)
                  /\ Absent(disk.helpers.text, id)
                  /\ BindingsWritten /\ id \in Names(inside) =>
                        Absent(disk.bindings.text, id)

\* a static outside any block with a bpf_ name and an Option<fn> type, next
\* to a block with a non-eligible and an eligible declaration
C3_Witness ==
    /\ pc = "ok"
    /\ bindings = <<TopStatic, ForeignMod(<<OtherSym, MapLookupElem>>)>>
    /\ disk.bindings.text = ItemTokens(TopStatic)
    /\ Len(helpers) = 1

\* The wrapper of Scenario A, token by token.
ScenarioAWrapper ==
    <<"#", "[", "inline", "(", "always", ")", "]", "pub",
      "unsafe", "extern", "\"C\"", "fn", "bpf_map_lookup_elem", "(",
      "arg0", ":", "*", "mut", "c_void", ",", "arg1", ":", "*", "mut", "c_void", ")",
      "->", "*", "mut", "c_void",
      "{", "let", "f", ":",
      "unsafe", "extern", "\"C\"", "fn", "(",
      "arg0", ":", "*", "mut", "c_void", ",", "arg1", ":", "*", "mut", "c_void", ")",
      "->", "*", "mut", "c_void",
      "=", "::", "core", "::", "mem", "::", "transmute", "(", "1usize", ")", ";",
      "f", "(", "arg0", ",", "arg1", ")", "}">>

\* some foreign block of the file holds both declarations
BlockWithBoth(items, a, b) ==
    \E i \in 1..Len(items) :
        /\ items[i].kind = "foreign"
        /\ \E j, k \in 1..Len(items[i].items) : items[i].items[j] = a /\ items[i].items[k] = b

\* What Scenario A expects of the two files.
ScenarioAExpected ==
    /\ Count(disk.bindings.text, "BPF_SOME_CONST") = 1
    /\ Count(disk.bindings.text, "extern") = 0
    /\ disk.helpers.text = UseLine \o ScenarioAWrapper

MentionsPrintk(fi) ==
    TokContains(fi.ident, "printk") \/ Contains(ArgTokens(fi.ty.args.args[1]), "printk")

C6_PrimaryExitStatusObserved ==
    pc = "ok" => formatted.bindings = "done"

\* C6, amended: neither exit status is looked at.  Whenever rustfmt was run,
\* on either file, the run goes on to its next step whatever the exit status;
\* only a rustfmt that could not be run ends the run.
C6_NoExitStatusObserved ==
    [][ /\ (pc = "fmt_bindings" /\ formatted'.bindings # "no") => pc' = "create_helpers"
        /\ (pc = "fmt_helpers" /\ formatted'.helpers # "no") => (pc' = "ok" /\ err' = "none")
        /\ (pc \in {"fmt_bindings", "fmt_helpers"} /\ pc' = "failed") => err' = "io"
      ]_vars

\* success although rustfmt exited non-zero on both files
C6_Witness ==
    /\ pc = "ok"
    /\ formatted.bindings = "nonzero"
    /\ formatted.helpers = "nonzero"

\* C7: once bindgen ran and exited non-zero, the run ends with bindgen's
\* standard error printed and the error that names the exit status, and
\* nothing was parsed, visited or written.
C7_NonZeroExitReported ==
    (Logged("bindgen") /\ output.status # 0 /\ pc \notin {"decode", "status"}) =>
        /\ pc = "failed"
        /\ err = "bindgen failed"
        /\ stderr
        /\ log = <<"bindgen">>
        /\ ~disk.bindings.exists /\ ~disk.helpers.exists

\* The first declaration of the input, if any, that has the surface shape of
\* an eligible one without the function type.
FirstMisshapen(fis) ==
    IF \E i \in 1..Len(fis) : IsMisshapen(fis[i])
    THEN CHOOSE i \in 1..Len(fis) : IsMisshapen(fis[i]) /\ \A j \in 1..(i - 1) : ~IsMisshapen(fis[j])
    ELSE 0

\* C8: with such a declaration in the input, the visitor never gets past the
\* first one: the run panics there, the accumulator holds the wrappers of
\* the eligible declarations before it and no other, the traversal never
\* returns and neither file is created.
C8_MisshapenDeclarationAborts ==
    LET fis == ForeignItemsOf(bindings)
        b == FirstMisshapen(fis)
        before == SelectSeq(SubSeq(fis, 1, b - 1), IsEligible)
    IN  (pc \notin {"output", "decode", "status", "parse"} /\ b > 0) =>
            /\ pc \in {"visit", "panicked"}
            /\ ~Logged("visit")
            /\ ~disk.bindings.exists /\ ~disk.helpers.exists
            /\ formatted = [bindings |-> "no", helpers |-> "no"]
            /\ Len(helpers) <= Len(before)
            /\ \A k \in 1..Len(helpers) : FnName(helpers[k]) = before[k].ident
            /\ phase = "foreign_item" =>
                  \E i \in 1..b : fis[i].ident = NodeAt(tree, path).ident
            /\ pc = "panicked" =>
                  /\ phase = "foreign_item"
                  /\ NodeAt(tree, path) = fis[b]
                  /\ Len(helpers) = Len(before)

\* Option<u32> between two eligible declarations: one wrapper, then the panic
C8_Witness ==
    /\ pc = "panicked"
    /\ bindings = <<ForeignMod(<<MapLookupElem,
                                 ForeignStatic("bpf_bad", OptionOf(PathTy("u32", NoArgs))),
                                 TracePrintk>>)>>
    /\ Len(helpers) = 1
    /\ ~disk.bindings.exists /\ ~disk.helpers.exists

IsPrefix(s, t) == Len(s) <= Len(t) /\ SubSeq(t, 1, Len(s)) = s

\* C9 as stated: both files are written before rustfmt is run on either.
C9_FormattersAfterBothWrites ==
    \A i \in 1..Len(log) :
        log[i] \in {"rustfmt bindings.rs", "rustfmt helpers.rs"} =>
            \E j \in 1..(i - 1) : log[j] = "write helpers.rs"

\* C9, amended: the steps happen in the order bindgen, parse, traversal,
\* write of bindings.rs, rustfmt on bindings.rs, write of helpers.rs, rustfmt
\* on helpers.rs; the run ends in success exactly when all seven happened,
\* and a file that was written stays as written when a later step fails.
C9_StagesInOrder ==
    LET stages == <<"bindgen", "parse", "visit", "write bindings.rs", "rustfmt bindings.rs",
                    "write helpers.rs", "rustfmt helpers.rs">>
    IN  /\ IsPrefix(log, stages)
        /\ pc = "ok" <=> log = stages
        /\ pc = "ok" => err = "none"
        /\ pc = "failed" => err # "none"
        /\ BindingsWritten =>
              disk.bindings.exists /\ disk.bindings.text = FileTokens(tree)
        /\ HelpersComplete =>
              disk.helpers.exists /\ disk.helpers.text = UseLine \o Flatten(helpers)

\* rustfmt ran on bindings.rs, then helpers.rs could not be created: the
\* run failed and bindings.rs is left as written
C9_Witness ==
    /\ pc = "failed"
    /\ log = <<"bindgen", "parse", "visit", "write bindings.rs", "rustfmt bindings.rs">>
    /\ disk.bindings.exists /\ disk.bindings.text # <<>>
    /\ ~disk.helpers.exists

\* s without its first t
RemoveFirst(s, t) ==
    IF \E i \in 1..Len(s) : s[i] = t
    THEN LET i == CHOOSE i \in 1..Len(s) : s[i] = t /\ \A j \in 1..(i - 1) : s[j] # t
         IN  SubSeq(s, 1, i - 1) \o SubSeq(s, i + 1, Len(s))
    ELSE s

\* C10: the signature of every wrapper is #[inline(always)] pub and the
\* function type's own tokens with the declaration's name put in once, after
\* the first fn; the body ends with the call f(names), the names being the
\* declared ones in their order.
C10_NameInsertedOnce ==
    pc \notin {"output", "decode", "status", "parse"} =>
        \A k \in 1..Len(helpers) :
            LET e == EligibleOf(bindings)[k]
                fn_ty == e.ty.args.args[1]
                names == [i \in 1..Len(fn_ty.ty.params) |-> fn_ty.ty.params[i].name]
                call == <<"f", "(">> \o Join([i \in 1..Len(names) |-> <<names[i]>>], ",") \o <<")", "}">>
                sig == SigOf(helpers[k])
                body == BodyOf(helpers[k])
            IN  /\ Count(sig, e.ident) = 1
                /\ FnName(helpers[k]) = e.ident
                /\ RemoveFirst(sig, e.ident)
                      = <<"#", "[", "inline", "(", "always", ")", "]", "pub">> \o TypeTokens(fn_ty.ty)
                /\ SubSeq(body, Len(body) - Len(call) + 1, Len(body)) = call

====
